---- MODULE Spec2Model ----
(***************************************************************************)
(* Page monitor of devon3000/CornellChecker.                               *)
(*                                                                         *)
(* Two scripts are modelled: python_monitor_script.py ("single", one fixed *)
(* page, one snapshot file) and python_monitor_script_multi.py ("multi", a *)
(* configured list of pages, one snapshot file per page name).  Each pass  *)
(* of a script is main(); the passes are the cron invocations.             *)
(*                                                                         *)
(* Abstractions:                                                           *)
(*  - a fetched HTML document is represented by what BeautifulSoup finds   *)
(*    in it (forms, activity elements, status texts, title);               *)
(*  - md5 is taken to be collision free: a digest is represented by the    *)
(*    canonical JSON text it is computed from, i.e. the snapshot without   *)
(*    its 'timestamp' key (sort_keys makes the key order irrelevant);      *)
(*  - datetime.now() is the number of the pass;                            *)
(*  - the TEST_EMAIL mode of main, which monitors nothing, is left out.    *)
(***************************************************************************)
EXTENDS Integers, Sequences, FiniteSets, TLC

VARIABLES
    script,         \* which script is deployed: "single" or "multi"
    store,          \* snapshot files on disk: file name -> file state
    content,        \* raw HTML debug files that exist on disk
    clock,          \* number of passes started (datetime.now())
    target_urls,    \* the page configuration of the running pass
    idx,            \* position of the for loop of main in target_urls
    pc,             \* position inside main / monitor_page
    html_content,   \* result of fetch_page_content
    current_data,   \* result of extract_form_data
    previous_data,  \* result of load_previous_snapshot
    branch,         \* branch compare_snapshots took for this page
    changes,        \* the list 'changes' built by compare_snapshots
    notified,       \* calls of send_notification for this page
    delivered,      \* whether a channel reported delivery
    message,        \* the text handed to send_notification
    error,          \* exception raised while processing this page
    success_count   \* success_count of main (multi)

vars == <<script, store, content, clock, target_urls, idx, pc, html_content,
          current_data, previous_data, branch, changes, notified, delivered,
          message, error, success_count>>

----------------------------------------------------------------------------
(* Bounds *)

MaxPasses == 2
MaxItems == 1

----------------------------------------------------------------------------
(* Values *)

None == [none |-> TRUE]
EmptyBody == [text |-> ""]

TARGET_URL == "https://www.cornell.edu/visit/plan/activities/?date=6-27-2025"
SNAPSHOT_FILE == "page_snapshot.json"
CONTENT_FILE == "page_content.html"

Names == {"a", "b"}

FormVals == {[action |-> "/signup", method |-> "post"],
             [action |-> "/signup", method |-> "get"]}
ActivityVals == {[text |-> "Library Open House", href |-> ""]}
StatusVals == {[keyword |-> "sold out", text |-> "Sold Out"]}
Titles == {"Visit"}

SeqsUpTo(S, n) == UNION {[1..k -> S] : k \in 0..n}

\* The documents a page can serve, by what the extractor finds in them.
Htmls ==
    {h \in [forms : SeqsUpTo(FormVals, MaxItems),
            activities : SeqsUpTo(ActivityVals, MaxItems),
            status_elements : SeqsUpTo(StatusVals, MaxItems),
            page_title : Titles] :
        Len(h.forms) + Len(h.activities) + Len(h.status_elements) <= MaxItems}

\* requests.get: a RequestException, an empty body, or a document.
FetchResults == {None, EmptyBody} \cup Htmls

\* What get_target_urls can return: nothing, two pages, and two entries that
\* share a name (the second under another URL).
PageConfig(n, u) == [name |-> n, url |-> u]
Configs ==
    {<<>>,
     <<PageConfig("a", "u1"), PageConfig("b", "u1")>>,
     <<PageConfig("a", "u1"), PageConfig("a", "u2")>>}

\* The single-page script monitors TARGET_URL and nothing else.
SingleConfig == <<PageConfig("default", TARGET_URL)>>

----------------------------------------------------------------------------
(* Files *)

get_snapshot_filename(page_name) == "page_snapshot_" \o page_name \o ".json"

get_content_filename(page_name) == "page_content_" \o page_name \o ".html"

SnapshotFiles == {SNAPSHOT_FILE} \cup {get_snapshot_filename(n) : n \in Names}
ContentFiles == {CONTENT_FILE} \cup {get_content_filename(n) : n \in Names}

Absent == [kind |-> "absent"]
\* A file json.load rejects (JSONDecodeError), one open() or read() fails on
\* (IOError), and one whose bytes are not valid text (UnicodeDecodeError,
\* a ValueError that is neither of the two).
BadJson == [kind |-> "badjson"]
Unreadable == [kind |-> "unreadable"]
BadEncoding == [kind |-> "badencoding"]
CorruptFiles == {BadJson, Unreadable, BadEncoding}
File(data) == [kind |-> "file", data |-> data]

page_config == target_urls[idx]

snapshot_file ==
    IF script = "single" THEN SNAPSHOT_FILE
    ELSE get_snapshot_filename(page_config.name)

content_file ==
    IF script = "single" THEN CONTENT_FILE
    ELSE get_content_filename(page_config.name)

----------------------------------------------------------------------------
(* Pure functions *)

\* Python truth of a fetch result or of a loaded snapshot: None and the empty
\* string are false, a document or a snapshot with its keys is true.
Truthy(v) == v # None /\ v # EmptyBody

\* extract_form_data: the snapshot of a document, stamped with the time.
extract_form_data(html, now) ==
    [forms |-> html.forms,
     activities |-> html.activities,
     status_elements |-> html.status_elements,
     page_title |-> html.page_title,
     timestamp |-> now]

\* current_data['url'] = url
WithUrl(data, url) == [url |-> url] @@ data

\* calculate_content_hash that forgets to drop the timestamp.
calculate_content_hash_KeepsTimestamp(data) == data

\* calculate_content_hash: every key but 'timestamp', in sorted key order.
calculate_content_hash(data) ==
    [k \in (DOMAIN data) \ {"timestamp"} |-> data[k]]

\* load_previous_snapshot, where it returns.
load_previous_snapshot(f) ==
    IF f.kind = "file" THEN f.data ELSE None

\* load_previous_snapshot raises what its except clause does not list.
LoadRaises(f) == f.kind = "badencoding"

RECURSIVE Join(_, _)
Join(s, sep) ==
    IF Len(s) = 0 THEN ""
    ELSE IF Len(s) = 1 THEN s[1]
    ELSE s[1] \o sep \o Join(Tail(s), sep)

Min(a, b) == IF a < b THEN a ELSE b

Take(s, n) == SubSeq(s, 1, Min(n, Len(s)))

\* list(a_set): the elements in an order the hash seed decides.
SetOrders(S) ==
    {s \in [1..Cardinality(S) -> S] :
        \A i, j \in 1..Cardinality(S) : i # j => s[i] # s[j]}

Texts(elems) == {elems[i].text : i \in 1..Len(elems)}

InitialNote == "Initial snapshot created"
FallbackNote == "Page content changed (details unclear)"

FormCountNote(old_forms, new_forms) ==
    "Number of forms changed: " \o ToString(Len(old_forms)) \o " -> "
        \o ToString(Len(new_forms))

\* compare_snapshots of the single-page script; addOrd, remOrd and statOrd
\* are the iteration orders of the three difference sets.
compare_snapshots_single(old_data, new_data, addOrd, remOrd, statOrd) ==
    IF ~Truthy(old_data) THEN
        [branch |-> "baseline", changes |-> <<InitialNote>>]
    ELSE IF calculate_content_hash(old_data) = calculate_content_hash(new_data)
    THEN [branch |-> "nochange", changes |-> <<>>]
    ELSE
        LET formNotes ==
                IF Len(old_data.forms) # Len(new_data.forms)
                THEN <<FormCountNote(old_data.forms, new_data.forms)>>
                ELSE <<>>
            addNotes ==
                IF addOrd # <<>>
                THEN <<"New activities: " \o Join(Take(addOrd, 3), ", ")>>
                ELSE <<>>
            remNotes ==
                IF remOrd # <<>>
                THEN <<"Removed activities: " \o Join(Take(remOrd, 3), ", ")>>
                ELSE <<>>
            statNotes ==
                IF statOrd # <<>>
                THEN <<"Status changes: " \o Join(Take(statOrd, 2), ", ")>>
                ELSE <<>>
            found == formNotes \o addNotes \o remNotes \o statNotes
        IN  [branch |-> "changed",
             changes |-> IF found # <<>> THEN found ELSE <<FallbackNote>>]

\* The three difference sets compare_snapshots (single) builds.
AddedActivities(old_data, new_data) ==
    IF Truthy(old_data)
    THEN Texts(new_data.activities) \ Texts(old_data.activities) ELSE {}
RemovedActivities(old_data, new_data) ==
    IF Truthy(old_data)
    THEN Texts(old_data.activities) \ Texts(new_data.activities) ELSE {}
StatusChanges(old_data, new_data) ==
    IF Truthy(old_data)
    THEN Texts(new_data.status_elements) \ Texts(old_data.status_elements)
    ELSE {}

\* '"details unclear" in changes[0]' of the multi-page script.  Its notes are
\* a fixed text followed by the page name, and no modelled page name holds
\* the words, so the test is true of the fallback note only.
HasDetailsUnclear(note) == note = FallbackNote

\* compare_snapshots of the multi-page script, up to its send_notification.
compare_snapshots_multi(old_data, new_data, page_name) ==
    IF ~Truthy(old_data) THEN [branch |-> "baseline", changes |-> <<>>]
    ELSE IF calculate_content_hash(old_data) = calculate_content_hash(new_data)
    THEN [branch |-> "nochange", changes |-> <<>>]
    ELSE
        LET formNotes ==
                IF old_data.forms # new_data.forms
                THEN <<"Form changes detected for " \o page_name>> ELSE <<>>
            actNotes ==
                IF old_data.activities # new_data.activities
                THEN <<"Activity changes detected for " \o page_name>>
                ELSE <<>>
            statNotes ==
                IF old_data.status_elements # new_data.status_elements
                THEN <<"Status changes detected for " \o page_name>>
                ELSE <<>>
        IN  [branch |-> "changed",
             changes |-> formNotes \o actNotes \o statNotes]

\* Notifies with a suppression test that looks at the length of the list only.
Notifies_SuppressSingleNote(s, res) ==
    /\ res.changes # <<>>
    /\ s = "multi" => (res.branch = "changed" /\ Len(res.changes) # 1)

\* Whether the script goes on to send_notification after the comparison.
Notifies(s, res) ==
    IF s = "single" THEN res.changes # <<>>
    ELSE /\ res.branch = "changed"
         /\ res.changes # <<>>
         /\ ~(Len(res.changes) = 1 /\ HasDetailsUnclear(res.changes[1]))

\* The message text; the multi-page script appends the wall-clock time.
FormatMessage(s, notes, cfg, data) ==
    IF s = "single"
    THEN "Cornell Visit Page Changed!\n\n" \o Join(Take(notes, 3), "; ")
            \o "\n\nCheck: " \o TARGET_URL
    ELSE "PAGE CHANGE ALERT for " \o cfg.name \o "!\n\n" \o Join(notes, "\n")
            \o "\n\nURL: " \o data.url

----------------------------------------------------------------------------
(* Initial state: nothing has run; the snapshot files the deployed script  *)
(* uses are missing or damaged.                                            *)

UsedSnapshotFiles(s) ==
    IF s = "single" THEN {SNAPSHOT_FILE}
    ELSE {get_snapshot_filename(n) : n \in Names}

Init ==
    /\ script \in {"single", "multi"}
    /\ store \in [SnapshotFiles -> {Absent} \cup CorruptFiles]
    /\ \A f \in SnapshotFiles \ UsedSnapshotFiles(script) : store[f] = Absent
    /\ content = {}
    /\ clock = 0
    /\ target_urls = <<>>
    /\ idx = 0
    /\ pc = "idle"
    /\ html_content = None
    /\ current_data = None
    /\ previous_data = None
    /\ branch = "none"
    /\ changes = <<>>
    /\ notified = 0
    /\ delivered = FALSE
    /\ message = ""
    /\ error = "none"
    /\ success_count = 0

ResetPage ==
    /\ html_content' = None
    /\ current_data' = None
    /\ previous_data' = None
    /\ branch' = "none"
    /\ changes' = <<>>
    /\ notified' = 0
    /\ delivered' = FALSE
    /\ message' = ""
    /\ error' = "none"

\* Where control goes when monitor_page / main returns for this page.
Return == IF script = "single" THEN "done" ELSE "next"

\* Raise without the try/except around monitor_page.
Raise_Uncaught(e) ==
    /\ error' = e
    /\ pc' = "crashed"

\* An exception leaves main of the single-page script; main of the
\* multi-page script catches it, prints it and goes on with the loop.
Raise(e) ==
    /\ error' = e
    /\ pc' = IF script = "single" THEN "crashed" ELSE "next"

----------------------------------------------------------------------------
(* Actions *)

\* main starts: the configuration is read, the first page begins.
StartPass ==
    /\ pc \in {"idle", "done", "crashed"}
    /\ clock < MaxPasses
    /\ clock' = clock + 1
    /\ \E cfg \in (IF script = "single" THEN {SingleConfig} ELSE Configs) :
        /\ target_urls' = cfg
        /\ IF cfg = <<>>
           THEN idx' = 0 /\ pc' = "done"
           ELSE idx' = 1 /\ pc' = "fetch"
    /\ success_count' = 0
    /\ ResetPage
    /\ UNCHANGED <<script, store, content>>

\* Fetch without the except clause of fetch_page_content.
Fetch_RaisesOnFailure ==
    /\ pc = "fetch"
    /\ \E r \in FetchResults :
        /\ html_content' = r
        /\ IF r = None
           THEN Raise("RequestException")
           ELSE /\ pc' = IF Truthy(r) THEN "extract" ELSE Return
                /\ UNCHANGED error
    /\ UNCHANGED <<script, store, content, clock, target_urls, idx,
                   current_data, previous_data, branch, changes, notified,
                   delivered, message, success_count>>

\* fetch_page_content and the 'if not html_content' test after it.
Fetch ==
    /\ pc = "fetch"
    /\ \E r \in FetchResults :
        /\ html_content' = r
        /\ pc' = IF Truthy(r) THEN "extract" ELSE Return
    /\ UNCHANGED <<script, store, content, clock, target_urls, idx,
                   current_data, previous_data, branch, changes, notified,
                   delivered, message, error, success_count>>

\* save_content, then extract_form_data (and current_data['url'] = url).
Extract ==
    /\ pc = "extract"
    /\ content' = content \cup {content_file}
    /\ current_data' =
        IF script = "single"
        THEN extract_form_data(html_content, clock)
        ELSE WithUrl(extract_form_data(html_content, clock), page_config.url)
    /\ pc' = "load"
    /\ UNCHANGED <<script, store, clock, target_urls, idx, html_content,
                   previous_data, branch, changes, notified, delivered,
                   message, error, success_count>>

\* save_content fails to open or write its file.
ExtractFails ==
    /\ pc = "extract"
    /\ Raise("IOError")
    /\ UNCHANGED <<script, store, content, clock, target_urls, idx,
                   html_content, current_data, previous_data, branch, changes,
                   notified, delivered, message, success_count>>

\* load_previous_snapshot.
Load ==
    /\ pc = "load"
    /\ IF LoadRaises(store[snapshot_file])
       THEN /\ Raise("UnicodeDecodeError")
            /\ UNCHANGED previous_data
       ELSE /\ previous_data' = load_previous_snapshot(store[snapshot_file])
            /\ pc' = "compare"
            /\ UNCHANGED error
    /\ UNCHANGED <<script, store, content, clock, target_urls, idx,
                   html_content, current_data, branch, changes, notified,
                   delivered, message, success_count>>

\* compare_snapshots up to the decision to notify.
Compare ==
    /\ pc = "compare"
    /\ \E addOrd \in SetOrders(AddedActivities(previous_data, current_data)),
          remOrd \in SetOrders(RemovedActivities(previous_data, current_data)),
          statOrd \in SetOrders(StatusChanges(previous_data, current_data)) :
        LET res == IF script = "single"
                   THEN compare_snapshots_single(previous_data, current_data,
                                                 addOrd, remOrd, statOrd)
                   ELSE compare_snapshots_multi(previous_data, current_data,
                                                page_config.name)
        IN  /\ branch' = res.branch
            /\ changes' = res.changes
            /\ pc' = IF Notifies(script, res) THEN "notify" ELSE "save"
    /\ UNCHANGED <<script, store, content, clock, target_urls, idx,
                   html_content, current_data, previous_data, notified,
                   delivered, message, error, success_count>>

\* send_notification: the channels are tried, each catches its own errors.
Notify ==
    /\ pc = "notify"
    /\ notified' = notified + 1
    /\ message' = FormatMessage(script, changes, page_config, current_data)
    /\ delivered' \in BOOLEAN
    /\ pc' = "save"
    /\ UNCHANGED <<script, store, content, clock, target_urls, idx,
                   html_content, current_data, previous_data, branch, changes,
                   error, success_count>>

\* Save that writes the file only when the comparison found a difference.
Save_SkipsWhenNoChange ==
    /\ pc = "save"
    /\ store' = IF branch = "nochange" THEN store
              ELSE [store EXCEPT ![snapshot_file] = File(current_data)]
    /\ pc' = Return
    /\ success_count' = IF script = "multi" THEN success_count + 1
                        ELSE success_count
    /\ UNCHANGED <<script, content, clock, target_urls, idx, html_content,
                   current_data, previous_data, branch, changes, notified,
                   delivered, message, error>>

\* save_snapshot writes the file.
Save ==
    /\ pc = "save"
    /\ store' = [store EXCEPT ![snapshot_file] = File(current_data)]
    /\ pc' = Return
    /\ success_count' = IF script = "multi" THEN success_count + 1
                        ELSE success_count
    /\ UNCHANGED <<script, content, clock, target_urls, idx, html_content,
                   current_data, previous_data, branch, changes, notified,
                   delivered, message, error>>

\* save_snapshot fails: open() fails and the file is as it was, or the write
\* breaks off and leaves a truncated document.
SaveFails ==
    /\ pc = "save"
    /\ \E left \in {store[snapshot_file], BadJson} :
        store' = [store EXCEPT ![snapshot_file] = left]
    /\ Raise("IOError")
    /\ UNCHANGED <<script, content, clock, target_urls, idx, html_content,
                   current_data, previous_data, branch, changes, notified,
                   delivered, message, success_count>>

\* The for loop of main (multi) takes the next page or ends; the locals of
\* monitor_page are gone either way.
NextPage ==
    /\ pc = "next"
    /\ IF idx < Len(target_urls)
       THEN /\ idx' = idx + 1
            /\ pc' = "fetch"
            /\ ResetPage
       ELSE /\ pc' = "done"
            /\ UNCHANGED idx
            /\ ResetPage
    /\ UNCHANGED <<script, store, content, clock, target_urls, success_count>>

Next ==
    \/ StartPass
    \/ Fetch
    \/ Extract
    \/ ExtractFails
    \/ Load
    \/ Compare
    \/ Notify
    \/ Save
    \/ SaveFails
    \/ NextPage

Spec == Init /\ [][Next]_vars

\* The process runs each pass to completion: every step that can be taken is
\* taken (requests.get has a timeout, nothing else waits).
FairSpec == Spec /\ WF_vars(Next)

----------------------------------------------------------------------------
(* Vocabulary of the properties *)

\* A page of the pass has been processed to its end.
PageEnded == idx >= 1 /\ pc \in {"next", "done", "crashed"}

\* The comparison of this page has been made.
Compared == branch # "none"

Fetched == Truthy(html_content)

\* The three comparisons of the change report, on the two snapshots.
FormCountDiffers == Len(previous_data.forms) # Len(current_data.forms)
ActivityTextsDiffer ==
    Texts(previous_data.activities) # Texts(current_data.activities)
StatusTextsAdded ==
    Texts(current_data.status_elements)
        \ Texts(previous_data.status_elements) # {}

\* The note list is non-empty and is not the single fallback note.
Notable ==
    /\ branch = "changed"
    /\ \/ changes # <<>> /\ changes # <<FallbackNote>>
       \/ FormCountDiffers
       \/ ActivityTextsDiffer
       \/ StatusTextsAdded

\* Equal in every field but the timestamp.
SameButTimestamp(a, b) ==
    /\ DOMAIN a = DOMAIN b
    /\ \A k \in (DOMAIN a) \ {"timestamp"} : a[k] = b[k]

\* Equal in title, forms, activities and status mentions.
SameContent(a, b) ==
    /\ a.page_title = b.page_title
    /\ a.forms = b.forms
    /\ a.activities = b.activities
    /\ a.status_elements = b.status_elements

----------------------------------------------------------------------------
(* C1 *)

\* C1: in every run of a page whose load returned no previous snapshot, the
\* comparison takes the baseline branch and send_notification is neither
\* called nor about to be called.
C1_BaselineNeverNotified ==
    (Compared /\ previous_data = None) =>
        (branch = "baseline" /\ notified = 0 /\ pc # "notify")

----------------------------------------------------------------------------
(* C2 *)

\* C2: when a previous snapshot is present, the hashes differ and neither the
\* form count, nor the set of activity texts, nor the status texts added in
\* the new snapshot differ (so that the change report holds the fallback note
\* alone), send_notification is neither called nor about to be called.
C2_MinorSuppressed ==
    (/\ branch = "changed"
     /\ ~FormCountDiffers
     /\ ~ActivityTextsDiffer
     /\ ~StatusTextsAdded) =>
        (notified = 0 /\ pc # "notify")

----------------------------------------------------------------------------
(* C3 *)

----------------------------------------------------------------------------
(* C4 *)

----------------------------------------------------------------------------
(* C5 *)

\* C5: when the loaded previous snapshot and the extracted one are equal in
\* every field but the timestamp, their hashes are equal, the comparison takes
\* the no-change branch and send_notification is neither called nor about to
\* be called.
C5_TimestampDriftIsNoChange ==
    (/\ Compared
     /\ previous_data # None
     /\ SameButTimestamp(previous_data, current_data)) =>
        /\ calculate_content_hash(previous_data)
               = calculate_content_hash(current_data)
        /\ branch = "nochange"
        /\ notified = 0
        /\ pc # "notify"

C5_Witness ==
    /\ PageEnded
    /\ Compared
    /\ previous_data # None
    /\ SameButTimestamp(previous_data, current_data)
    /\ previous_data.timestamp # current_data.timestamp
    /\ store[snapshot_file] = File(current_data)

----------------------------------------------------------------------------
(* C6 *)

\* C6: when the fetch of a page fails, the step returns from the page without
\* raising, leaves the snapshot files and the debug files as they are, and the
\* page ends with nothing extracted, nothing loaded, nothing compared, no
\* notification and no error.
C6_FetchFailureSkips ==
    /\ []((PageEnded /\ ~Fetched) =>
            /\ current_data = None
            /\ previous_data = None
            /\ branch = "none"
            /\ changes = <<>>
            /\ notified = 0
            /\ error = "none"
            /\ pc # "crashed")
    /\ [][(pc = "fetch" /\ ~Truthy(html_content')) =>
            /\ pc' = Return
            /\ store' = store
            /\ content' = content
            /\ success_count' = success_count]_vars

C6_Witness ==
    /\ PageEnded
    /\ ~Fetched
    /\ idx >= 1
    /\ store[snapshot_file].kind = "file"

----------------------------------------------------------------------------
(* C7 *)

\* C7: in the multi-page script no error raised for a page ends the pass: the
\* loop never leaves main by an exception, it moves from each page to the
\* fetch of the next one, a pass ends only after the last configured page,
\* and every pass that has started ends (the script is again and again
\* between passes).
C7_FailureIsolation ==
    /\ [](script = "multi" =>
            /\ pc # "crashed"
            /\ pc = "done" => idx = Len(target_urls))
    /\ [][(script = "multi" /\ pc \notin {"idle", "done"} /\ idx' # idx) =>
            (idx' = idx + 1 /\ pc' = "fetch")]_vars
    /\ []<>(script = "multi" => pc \in {"idle", "done"})

\* First pass, two pages: the first page got as far as its debug file and
\* its snapshot file is still the undecodable one (its load raised), the
\* second page was monitored and the pass has ended.
C7_Witness ==
    /\ script = "multi"
    /\ clock = 1
    /\ idx = 2
    /\ pc = "done"
    /\ success_count = 1
    /\ error = "none"
    /\ get_content_filename(target_urls[1].name) \in content
    /\ store[get_snapshot_filename(target_urls[1].name)] = BadEncoding

----------------------------------------------------------------------------
(* C8 *)

\* C8: while the snapshot file of the page being processed is corrupt or
\* unreadable (and not because this run's own write broke off), the run goes
\* the baseline way: no exception, the baseline branch, no notification.
C8_CorruptStoreIsBaseline ==
    (idx >= 1 /\ store[snapshot_file] \in CorruptFiles /\ error # "IOError") =>
        /\ error = "none"
        /\ pc # "crashed"
        /\ Compared => branch = "baseline"
        /\ notified = 0
        /\ pc # "notify"

----------------------------------------------------------------------------
(* C9 *)

\* C9: two snapshots that agree on title, forms, activities and status
\* mentions, and differ at most in timestamp and url, have the same hash, and
\* the run comparing them does not take the changed branch.
C9_HashIgnoresVolatileFields ==
    (/\ previous_data # None
     /\ current_data # None
     /\ SameContent(previous_data, current_data)) =>
        /\ calculate_content_hash(previous_data)
               = calculate_content_hash(current_data)
        /\ branch # "changed"

----------------------------------------------------------------------------
(* C10 *)

\* C10: whenever a previous snapshot is present and its number of forms X
\* differs from the number Y of the new one, the note list is not the single
\* fallback note and its first note is "Number of forms changed: X -> Y".
C10_FormCountNote ==
    (branch = "changed" /\ FormCountDiffers) =>
        /\ changes # <<>>
        /\ changes # <<FallbackNote>>
        /\ changes[1] = FormCountNote(previous_data.forms, current_data.forms)

----------------------------------------------------------------------------
(* C11 *)

\* The texts of elems that are in S, each once, in the order of their first
\* occurrence in elems.
RECURSIVE FirstSeen(_, _)
FirstSeen(elems, S) ==
    IF elems = <<>> THEN <<>>
    ELSE IF elems[1].text \in S
         THEN <<elems[1].text>> \o FirstSeen(Tail(elems), S \ {elems[1].text})
         ELSE FirstSeen(Tail(elems), S)

\* The two snapshots are equal in every field but the timestamp and the
\* activities, and the activity texts of the new one are those of the old one
\* and more.
OnlyActivitiesAdded(old_data, new_data) ==
    /\ DOMAIN old_data = DOMAIN new_data
    /\ \A k \in (DOMAIN old_data) \ {"timestamp", "activities"} :
            old_data[k] = new_data[k]
    /\ Texts(old_data.activities) \subseteq Texts(new_data.activities)
    /\ Texts(old_data.activities) # Texts(new_data.activities)

\* C11: when the previous and the new snapshot differ only in that the new one
\* has activity texts the old one lacks, the note list is the single note
\* "New activities: " followed by the first three added texts in the order of
\* their first occurrence in the new snapshot, joined by ", ".
C11_AddedActivitiesNote ==
    (/\ Compared
     /\ previous_data # None
     /\ OnlyActivitiesAdded(previous_data, current_data)) =>
        /\ branch = "changed"
        /\ changes =
            <<"New activities: "
                \o Join(Take(FirstSeen(current_data.activities,
                                       AddedActivities(previous_data,
                                                       current_data)), 3),
                        ", ")>>

----------------------------------------------------------------------------
(* C12 *)

\* The status texts a page document can hold.
StatusTexts == {v.text : v \in StatusVals}

\* The notes that begin with "Status changes": the listing form over any
\* texts, and the form that names the page.
StatusNotes ==
    {"Status changes: " \o Join(ord, ", ") :
        ord \in UNION {SetOrders(T) : T \in SUBSET StatusTexts}}
    \cup {"Status changes detected for " \o n : n \in Names \cup {"default"}}

\* C12: whenever the previous snapshot is present and the new snapshot has
\* status texts the old one lacks, the note list holds the note
\* "Status changes: " followed by at most two of those texts; when no status
\* text was added (texts only disappeared, or none differ) the list holds no
\* status note.
C12_StatusChangesNote ==
    (Compared /\ previous_data # None) =>
        LET added == Texts(current_data.status_elements)
                        \ Texts(previous_data.status_elements)
        IN  IF added # {}
            THEN \E i \in DOMAIN changes : \E ord \in SetOrders(added) :
                    changes[i] = "Status changes: "
                                    \o Join(Take(ord, 2), ", ")
            ELSE \A i \in DOMAIN changes : changes[i] \notin StatusNotes

----------------------------------------------------------------------------
(* C13 *)

\* The two snapshots have different content hashes.
HashesDiffer ==
    calculate_content_hash(previous_data)
        # calculate_content_hash(current_data)

\* C13: for every present previous snapshot and every new snapshot whose
\* content hashes differ, the note list is non-empty; when neither the form
\* counts, nor the sets of activity texts, nor an added status text produced a
\* note, the list is the single note "Page content changed (details unclear)".
C13_FallbackNote ==
    (Compared /\ previous_data # None /\ HashesDiffer) =>
        /\ changes # <<>>
        /\ (~FormCountDiffers /\ ~ActivityTextsDiffer /\ ~StatusTextsAdded) =>
                changes = <<FallbackNote>>

----------------------------------------------------------------------------
(* C14 *)

\* The snapshot file of the j-th configured page.
SnapshotFileOf(j) == get_snapshot_filename(target_urls[j].name)

\* A page of a multi-page pass is being processed.
InPage == script = "multi" /\ idx \in DOMAIN target_urls

\* What the code keeps for every configuration: a step changes no snapshot
\* file but the one named after the page being processed, and the page is
\* compared with what that file holds until the page's own save.
StoreKeyedByName ==
    /\ [][\A f \in SnapshotFiles :
            store'[f] # store[f] =>
                (idx \in DOMAIN target_urls /\ f = snapshot_file)]_vars
    /\ []((idx \in DOMAIN target_urls /\ pc \in {"compare", "notify", "save"}) =>
            previous_data = load_previous_snapshot(store[snapshot_file]))

\* C14: in a multi-page pass, processing one configured page leaves the stored
\* snapshot of every other configured page unchanged, and the page is compared
\* with a snapshot that was extracted from that same page (the same URL),
\* whatever the configured (name, url) pairs are.
C14_PerPageStoreIsolation ==
    /\ [][InPage =>
            \A j \in DOMAIN target_urls :
                j # idx => store'[SnapshotFileOf(j)] = store[SnapshotFileOf(j)]
         ]_vars
    /\ []((InPage /\ Compared /\ previous_data # None) =>
            previous_data.url = page_config.url)

====
